---- MODULE Spec2Model ----
(***************************************************************************)
(* Model of the ara-lang/reporting crate: the diagnostic data model         *)
(* (Annotation, Issue, Report, ReportFooter), the ReportBuilder             *)
(* configuration, and the rendering routine ReportBuilder::write with its   *)
(* helper ReportBuilder::diagnostics.                                       *)
(*                                                                         *)
(* Option<T> is modelled as a sequence of length 0 (None) or 1 (Some).      *)
(* A Result is a record [ok |-> BOOLEAN, ...].                              *)
(*                                                                         *)
(* codespan_reporting::term::emit is an external crate.  The model keeps of *)
(* it what the crate's file database contract fixes: a label is looked up   *)
(* by file id in the SimpleFiles built by write (FileMissing when the id is *)
(* not in the database), the rich display style resolves every label and    *)
(* shows one excerpt per file in the order the files first appear among the *)
(* labels, the short styles resolve the primary labels only, and a write to *)
(* the sink may fail (Io).  Line and column computation inside the crate is *)
(* not modelled.                                                            *)
(***************************************************************************)
EXTENDS Naturals, Sequences, FiniteSets, TLC

(***************************************************************************)
(* Bounds of the model.                                                     *)
(***************************************************************************)
MaxReports == 2
MaxIssues == 2

(***************************************************************************)
(* Generic helpers on sequences.                                            *)
(***************************************************************************)
None == << >>
Some(v) == << v >>
IsSome(o) == Len(o) = 1

RECURSIVE Join(_, _)
\* Vec<String>::join(sep)
Join(strs, sep) ==
    IF Len(strs) = 0 THEN ""
    ELSE IF Len(strs) = 1 THEN strs[1]
    ELSE strs[1] \o sep \o Join(Tail(strs), sep)

RECURSIVE Flatten(_)
Flatten(ss) == IF Len(ss) = 0 THEN << >> ELSE ss[1] \o Flatten(Tail(ss))

\* all the orders in which the elements of a finite set can be enumerated
Orders(S) ==
    { f \in [1..Cardinality(S) -> S] : \A x \in S : \E i \in 1..Cardinality(S) : f[i] = x }

(***************************************************************************)
(* issue.rs: IssueSeverity.  The derived Ord is the declaration order.      *)
(***************************************************************************)
IssueSeverity == { "Note", "Help", "Warning", "Error", "Bug" }

\* a variant of the order that ranks Warning above Bug
SeverityRankWarningLast(s) ==
    CASE s = "Note" -> 0
      [] s = "Help" -> 1
      [] s = "Error" -> 2
      [] s = "Bug" -> 3
      [] s = "Warning" -> 4

SeverityRank(s) ==
    CASE s = "Note" -> 0
      [] s = "Help" -> 1
      [] s = "Warning" -> 2
      [] s = "Error" -> 3
      [] s = "Bug" -> 4

\* impl Display for IssueSeverity
SeverityDisplay(s) ==
    CASE s = "Error" -> "error"
      [] s = "Warning" -> "warning"
      [] s = "Help" -> "help"
      [] s = "Note" -> "note"
      [] s = "Bug" -> "bug"

\* impl From<IssueSeverity> for codespan Severity
SeverityInto(s) ==
    CASE s = "Error" -> "Severity::Error"
      [] s = "Warning" -> "Severity::Warning"
      [] s = "Note" -> "Severity::Note"
      [] s = "Help" -> "Severity::Help"
      [] s = "Bug" -> "Severity::Bug"

(***************************************************************************)
(* annotation.rs                                                            *)
(***************************************************************************)
AnnotationType == { "Primary", "Secondary" }

Annotation_new(type, origin, from, to) ==
    [ type |-> type, message |-> None, origin |-> origin, from |-> from, to |-> to ]

Annotation_primary(origin, from, to) == Annotation_new("Primary", origin, from, to)

Annotation_secondary(origin, from, to) == Annotation_new("Secondary", origin, from, to)

Annotation_with_message(self, message) == [ self EXCEPT !.message = Some(message) ]

(***************************************************************************)
(* issue.rs: Issue and its fluent chain.                                    *)
(***************************************************************************)
Issue_new(severity, message) ==
    [ severity |-> severity, code |-> None, message |-> message,
      source |-> None, annotations |-> << >>, notes |-> << >> ]

Issue_with_code(self, code) == [ self EXCEPT !.code = Some(code) ]

\* a variant that puts the annotation in front of the earlier ones
Issue_with_annotationInFront(self, annotation) ==
    [ self EXCEPT !.annotations = << annotation >> \o @ ]

Issue_with_annotation(self, annotation) ==
    [ self EXCEPT !.annotations = Append(@, annotation) ]

Issue_with_note(self, note) == [ self EXCEPT !.notes = Append(@, note) ]

Issue_with_source(self, source, from, to) ==
    [ self EXCEPT !.source = Some(<< source, from, to >>) ]

Issue_error(code, message) == Issue_with_code(Issue_new("Error", message), code)
Issue_warning(code, message) == Issue_with_code(Issue_new("Warning", message), code)
Issue_help(code, message) == Issue_with_code(Issue_new("Help", message), code)
Issue_note(code, message) == Issue_with_code(Issue_new("Note", message), code)
Issue_bug(code, message) == Issue_with_code(Issue_new("Bug", message), code)

\* a variant that prints the brackets of the code also when there is no code
Issue_fmtEmptyBrackets(self) ==
    SeverityDisplay(self.severity)
    \o "[" \o (IF IsSome(self.code) THEN self.code[1] ELSE "") \o "]: " \o self.message
    \o (IF IsSome(self.source)
        THEN " at " \o self.source[1][1] \o "@" \o ToString(self.source[1][2])
             \o ":" \o ToString(self.source[1][3])
        ELSE "")

\* impl Display for Issue
Issue_fmt(self) ==
    (IF IsSome(self.code)
     THEN SeverityDisplay(self.severity) \o "[" \o self.code[1] \o "]: " \o self.message
     ELSE SeverityDisplay(self.severity) \o ": " \o self.message)
    \o (IF IsSome(self.source)
        THEN " at " \o self.source[1][1] \o "@" \o ToString(self.source[1][2])
             \o ":" \o ToString(self.source[1][3])
        ELSE "")

(***************************************************************************)
(* lib.rs: ReportFooter, Report, Reportable.                                *)
(***************************************************************************)
ReportFooter_new(message) == [ message |-> message, notes |-> << >>, summary |-> TRUE ]

ReportFooter_with_note(self, note) == [ self EXCEPT !.notes = Append(@, note) ]

ReportFooter_with_summary(self, enabled) == [ self EXCEPT !.summary = enabled ]

Report_new == [ issues |-> << >>, footer |-> None ]

Report_with_issue(self, issue) == [ self EXCEPT !.issues = Append(@, issue) ]

Report_with_footer(self, footer) == [ self EXCEPT !.footer = Some(footer) ]

RECURSIVE IterMax(_, _)
\* Iterator::max over the severities: the last maximal element, None when empty
IterMax(sevs, acc) ==
    IF Len(sevs) = 0 THEN acc
    ELSE IF Len(acc) = 0 \/ SeverityRank(sevs[1]) >= SeverityRank(acc[1])
         THEN IterMax(Tail(sevs), Some(sevs[1]))
         ELSE IterMax(Tail(sevs), acc)

\* Report::severity
Report_severity(self) ==
    IterMax([ i \in 1..Len(self.issues) |-> self.issues[i].severity ], None)

\* impl Reportable for Report: vec![self]
Report_to_reports(self) == << self >>

\* impl Reportable for ReportCollection: self.to_vec()
ReportCollection_to_reports(self) == self

\* dyn Reportable dispatch: a reportable is a Report or a ReportCollection
to_reports(reportable) ==
    IF reportable.kind = "Report" THEN Report_to_reports(reportable.report)
    ELSE ReportCollection_to_reports(reportable.refs)

(***************************************************************************)
(* builder.rs: configuration enums and the colour choice handed to the      *)
(* standard streams and to the string buffer.                               *)
(***************************************************************************)
ColorChoice == { "Always", "Auto", "Never" }
CharSet == { "Ascii", "Unicode" }
DisplayStyle == { "Default", "Comfortable", "Compact" }

\* a variant whose default character set is Unicode
ReportBuilder_newUnicode(sm) ==
    [ source_map |-> sm, colors |-> "Auto", charset |-> "Unicode", style |-> "Default" ]

ReportBuilder_new(sm) ==
    [ source_map |-> sm, colors |-> "Auto", charset |-> "Ascii", style |-> "Default" ]

ReportBuilder_with_colors(self, c) == [ self EXCEPT !.colors = c ]

\* a variant that puts the colours back to their default
ReportBuilder_with_charsetResettingColors(self, c) ==
    [ self EXCEPT !.charset = c, !.colors = "Auto" ]

ReportBuilder_with_charset(self, c) == [ self EXCEPT !.charset = c ]
ReportBuilder_with_style(self, s) == [ self EXCEPT !.style = s ]

\* a variant whose Always arm does not look at the charset
TermColorChoiceIgnoringCharset(self) ==
    CASE self.colors = "Always" -> "Always"
      [] self.colors = "Auto" -> "Auto"
      [] self.colors = "Never" -> "Never"

\* the match on self.colors / self.charset in print, eprint and as_string
TermColorChoice(self) ==
    CASE self.colors = "Always" ->
           (IF self.charset = "Ascii" THEN "AlwaysAnsi" ELSE "Always")
      [] self.colors = "Auto" -> "Auto"
      [] self.colors = "Never" -> "Never"

\* the display_style of the codespan Config built by write
CodespanDisplayStyle(self) ==
    CASE self.style = "Default" -> "Rich"
      [] self.style = "Comfortable" -> "Medium"
      [] self.style = "Compact" -> "Short"

(***************************************************************************)
(* builder.rs, write: the SimpleFiles database and the name -> id map.      *)
(* SimpleFiles::add returns the index of the added file (0-based); a later  *)
(* insert of the same name replaces the id stored in files_ids.             *)
(***************************************************************************)
Files(sm) == [ i \in 1..Len(sm) |-> [ name |-> sm[i].name, source |-> sm[i].content ] ]

FilesIds(sm) ==
    [ n \in { sm[i].name : i \in 1..Len(sm) } |->
        (CHOOSE i \in 1..Len(sm) :
            /\ sm[i].name = n
            /\ \A j \in 1..Len(sm) : sm[j].name = n => j <= i) - 1 ]

\* *files_ids.get(name).unwrap_or(&0)
FileIdOrDefault(files_ids, name) ==
    IF name \in DOMAIN files_ids THEN files_ids[name] ELSE 0

(***************************************************************************)
(* builder.rs, diagnostics: one Diagnostic per issue, then the footer.      *)
(***************************************************************************)
\* the Label built from one annotation
AnnotationLabel(annotation, files_ids) ==
    [ style |-> IF annotation.type = "Primary" THEN "Primary" ELSE "Secondary",
      file_id |-> FileIdOrDefault(files_ids, annotation.origin),
      from |-> annotation.from,
      to |-> annotation.to,
      message |-> annotation.message ]

\* Label::primary(file id of the issue's source, from..to)
SourceLabel(source, files_ids) ==
    [ style |-> "Primary",
      file_id |-> FileIdOrDefault(files_ids, source[1]),
      from |-> source[2],
      to |-> source[3],
      message |-> None ]

\* a variant in which the second with_labels call replaces the labels set by the first
IssueLabelsReplaced(issue, files_ids) ==
    IF IsSome(issue.source) THEN << SourceLabel(issue.source[1], files_ids) >>
    ELSE [ i \in 1..Len(issue.annotations) |-> AnnotationLabel(issue.annotations[i], files_ids) ]

\* the labels of an issue: with_labels appends, the annotations come first
IssueLabels(issue, files_ids) ==
    [ i \in 1..Len(issue.annotations) |-> AnnotationLabel(issue.annotations[i], files_ids) ]
    \o (IF IsSome(issue.source) THEN << SourceLabel(issue.source[1], files_ids) >> ELSE << >>)

IssueDiagnostic(issue, files_ids) ==
    [ severity |-> SeverityInto(issue.severity),
      code |-> issue.code,
      message |-> issue.message,
      notes |-> issue.notes,
      labels |-> IssueLabels(issue, files_ids) ]

\* a variant that inserts 1 for a severity and never adds to it
SummaryEntriesInsertOnly(issues) ==
    [ s \in { issues[i].severity : i \in 1..Len(issues) } |-> 1 ]

\* the FxHashMap filled by the for_each over report.issues
SummaryEntries(issues) ==
    [ s \in { issues[i].severity : i \in 1..Len(issues) } |->
        Cardinality({ i \in 1..Len(issues) : issues[i].severity = s }) ]

\* entries.iter().collect(): the (severity, count) pairs in the map's
\* iteration order, which the hasher decides
CollectEntries(entries, order) == [ i \in 1..Len(order) |-> << order[i], entries[order[i]] >> ]

\* a variant that orders the pairs by their count first
EntryLeByCount(e1, e2) ==
    \/ e1[2] < e2[2]
    \/ e1[2] = e2[2] /\ SeverityRank(e1[1]) <= SeverityRank(e2[1])

\* Ord on (&IssueSeverity, &usize): severity first, then the count
EntryLe(e1, e2) ==
    \/ SeverityRank(e1[1]) < SeverityRank(e2[1])
    \/ SeverityRank(e1[1]) = SeverityRank(e2[1]) /\ e1[2] <= e2[2]

RECURSIVE InsertEntry(_, _)
InsertEntry(sorted, e) ==
    IF Len(sorted) = 0 THEN << e >>
    ELSE IF EntryLe(sorted[Len(sorted)], e) THEN Append(sorted, e)
    ELSE Append(InsertEntry(SubSeq(sorted, 1, Len(sorted) - 1), e), sorted[Len(sorted)])

RECURSIVE SortRec(_, _)
SortRec(todo, sorted) ==
    IF Len(todo) = 0 THEN sorted ELSE SortRec(Tail(todo), InsertEntry(sorted, todo[1]))

\* a variant that keeps the pairs in the iteration order of the map
SortEntriesNone(collected) == collected

\* entries.sort_by_key(|severity| *severity): a stable sort by the pair
SortEntries(collected) == SortRec(collected, << >>)

\* format!("{} {}(s)", count, severity)
FormatEntry(e) == ToString(e[2]) \o " " \o SeverityDisplay(e[1]) \o "(s)"

\* the text pushed to the footer's notes when footer.summary is set
SummaryNote(issues, order) ==
    LET entries == SortEntries(CollectEntries(SummaryEntries(issues), order))
    IN "summary: " \o Join([ i \in 1..Len(entries) |-> FormatEntry(entries[i]) ], ", ")

\* a variant that puts the summary in front of the footer's notes
FooterNotesSummaryFirst(report, footer, order) ==
    IF footer.summary THEN << SummaryNote(report.issues, order) >> \o footer.notes
    ELSE footer.notes

\* the local `notes` of the footer branch: a clone of footer.notes plus the summary
FooterNotes(report, footer, order) ==
    IF footer.summary THEN Append(footer.notes, SummaryNote(report.issues, order))
    ELSE footer.notes

FooterDiagnostic(report, footer, order) ==
    LET sev == Report_severity(report)
    IN [ severity |-> SeverityInto(IF IsSome(sev) THEN sev[1] ELSE "Error"),
         code |-> None,
         message |-> footer.message,
         notes |-> FooterNotes(report, footer, order),
         labels |-> << >> ]

\* a variant that pushes the footer's diagnostic before those of the issues
DiagnosticsFooterFirst(report, files_ids, order) ==
    (IF IsSome(report.footer)
     THEN << FooterDiagnostic(report, report.footer[1], order) >>
     ELSE << >>)
    \o [ i \in 1..Len(report.issues) |-> IssueDiagnostic(report.issues[i], files_ids) ]

\* ReportBuilder::diagnostics; `order` is the iteration order of the summary map
Diagnostics(report, files_ids, order) ==
    [ i \in 1..Len(report.issues) |-> IssueDiagnostic(report.issues[i], files_ids) ]
    \o (IF IsSome(report.footer)
        THEN << FooterDiagnostic(report, report.footer[1], order) >>
        ELSE << >>)

\* the iteration orders the summary map of a report can have
HashOrders(report) == Orders({ report.issues[i].severity : i \in 1..Len(report.issues) })

(***************************************************************************)
(* codespan_reporting::term::emit as called by write.                       *)
(***************************************************************************)
\* the labels emit resolves: all of them in the rich style, the primary ones otherwise
ResolvedLabels(display_style, labels) ==
    IF display_style = "Rich" THEN labels
    ELSE SelectSeq(labels, LAMBDA l : l.style = "Primary")

\* SimpleFiles::get fails with FileMissing for an id that was never added
FileLookupFails(files, label) == label.file_id >= Len(files)

RECURSIVE FirstAppearance(_, _)
\* the file ids of the labels, each once, in the order of first appearance
FirstAppearance(labels, seen) ==
    IF Len(labels) = 0 THEN << >>
    ELSE IF labels[1].file_id \in seen THEN FirstAppearance(Tail(labels), seen)
    ELSE << labels[1].file_id >> \o FirstAppearance(Tail(labels), seen \cup { labels[1].file_id })

\* the names heading the excerpt blocks of a diagnostic, top to bottom
ExcerptFiles(display_style, files, labels) ==
    IF display_style = "Rich"
    THEN LET ids == FirstAppearance(labels, {})
         IN [ i \in 1..Len(ids) |-> files[ids[i] + 1].name ]
    ELSE << >>

\* what one emit call writes when it succeeds
Block(display_style, files, diagnostic) ==
    [ diagnostic |-> diagnostic,
      excerpts |-> ExcerptFiles(display_style, files, diagnostic.labels) ]

\* the results an emit call can have; sink_may_fail: the sink can refuse a write
EmitOutcomes(display_style, files, diagnostic, sink_may_fail) ==
    LET resolved == ResolvedLabels(display_style, diagnostic.labels)
        missing == \E i \in 1..Len(resolved) : FileLookupFails(files, resolved[i])
        io == IF sink_may_fail
              THEN { [ ok |-> FALSE, err |-> [ kind |-> "Io", error |-> "BrokenPipe" ] ] }
              ELSE {}
    IN IF missing
       THEN { [ ok |-> FALSE, err |-> [ kind |-> "FileMissing" ] ] }
            \cup (IF display_style = "Rich" THEN {} ELSE io)
       ELSE { [ ok |-> TRUE, block |-> Block(display_style, files, diagnostic) ] } \cup io

\* a variant whose IndexTooLarge arm builds the LineTooLarge variant
MapErrorIndexAsLine(err) ==
    CASE err.kind = "FileMissing" -> [ kind |-> "FileMissing" ]
      [] err.kind = "IndexTooLarge" ->
           [ kind |-> "LineTooLarge", given |-> err.given, max |-> err.max ]
      [] err.kind = "LineTooLarge" ->
           [ kind |-> "LineTooLarge", given |-> err.given, max |-> err.max ]
      [] err.kind = "ColumnTooLarge" ->
           [ kind |-> "ColumnTooLarge", given |-> err.given, max |-> err.max ]
      [] err.kind = "InvalidCharBoundary" ->
           [ kind |-> "InvalidCharBoundary", given |-> err.given ]
      [] err.kind = "Io" -> [ kind |-> "Io", error |-> err.error ]
      [] OTHER -> [ kind |-> "CodespanError", inner |-> err ]

\* the match on the CodespanError in write
MapError(err) ==
    CASE err.kind = "FileMissing" -> [ kind |-> "FileMissing" ]
      [] err.kind = "IndexTooLarge" ->
           [ kind |-> "IndexTooLarge", given |-> err.given, max |-> err.max ]
      [] err.kind = "LineTooLarge" ->
           [ kind |-> "LineTooLarge", given |-> err.given, max |-> err.max ]
      [] err.kind = "ColumnTooLarge" ->
           [ kind |-> "ColumnTooLarge", given |-> err.given, max |-> err.max ]
      [] err.kind = "InvalidCharBoundary" ->
           [ kind |-> "InvalidCharBoundary", given |-> err.given ]
      [] err.kind = "Io" -> [ kind |-> "Io", error |-> err.error ]
      [] OTHER -> [ kind |-> "CodespanError", inner |-> err ]

(***************************************************************************)
(* The values the producers build in the model.                             *)
(***************************************************************************)
SourceA == [ name |-> "a.ara", content |-> "x = 1\ny = 2\n" ]
SourceB == [ name |-> "b.ara", content |-> "function add() {}" ]

\* "c.ara" is an origin that no SourceMap of the model contains
SourceMaps == { << >>, << SourceA, SourceB >> }

IssueMissingSecondary ==
    Issue_with_annotation(
        Issue_with_source(Issue_warning("W1", "unused"), "a.ara", 0, 1),
        Annotation_with_message(Annotation_secondary("c.ara", 0, 1), "declared here"))

IssueCrossFileFirst ==
    Issue_with_note(
        Issue_with_annotation(
            Issue_with_annotation(
                Issue_with_source(Issue_bug("B1", "mismatched types"), "a.ara", 4, 5),
                Annotation_with_message(Annotation_secondary("b.ara", 9, 12), "defined here")),
            Annotation_secondary("a.ara", 0, 1)),
        "cast the argument")

IssueSamples ==
    { IssueMissingSecondary, IssueCrossFileFirst }

FooterSamples == { ReportFooter_with_note(ReportFooter_new("done"), "see log") }

(***************************************************************************)
(* State.                                                                   *)
(*   source_map  the SourceMap the builder borrows                          *)
(*   reports     the Reports the producer owns                              *)
(*   builder     the ReportBuilder (source_map, colors, charset, style)     *)
(*   pc          "build": values are being built; "render": a render call   *)
(*               is inside the loops of write; "done": the call returned;   *)
(*               "severity": Report::severity returned; "new" / "with": a   *)
(*               builder was constructed / configured; "chain": a fluent    *)
(*               chain is under way; "to_string" / "diagnostics": the       *)
(*               call of that name returned; "threads": the calls run on    *)
(*               the threads                                                *)
(*   writer      the sink of the current call and its colour choice         *)
(*   reportable  the argument of the current call                           *)
(*   queue       the reports the outer loop of write has not reached yet    *)
(*   diags       the diagnostics of the current report not yet emitted      *)
(*   sink        the blocks the sink received since the call began          *)
(*   result      None while the call runs, Some(Result) once it returned    *)
(*   last        the result of the latest finished as_string call and what  *)
(*               its buffer had received                                    *)
(*   draft       the value a fluent chain is building (an Issue, a          *)
(*               ReportFooter or a Report), None outside such a chain       *)
(*   threads     the render calls running on threads of their own, each     *)
(*               with its own sink; empty when there are none               *)
(***************************************************************************)
VARIABLES source_map, reports, builder, pc, writer, reportable, queue, diags, sink, result,
          last, draft, threads

vars == << source_map, reports, builder, pc, writer, reportable, queue, diags, sink, result,
           last, draft, threads >>

call == << writer, reportable, queue, diags, sink, result, last >>

MaxSevIssues == 3

NoWriter == [ dest |-> "none", color |-> "none" ]
NoReportable == [ kind |-> "none" ]

Init ==
    /\ source_map \in SourceMaps
    /\ builder = ReportBuilder_new(source_map)
    /\ reports = << >>
    /\ pc = "build"
    /\ writer = NoWriter
    /\ reportable = NoReportable
    /\ queue = << >>
    /\ diags = << >>
    /\ sink = << >>
    /\ result = None
    /\ last = None
    /\ draft = None
    /\ threads = << >>

TotalIssues == Len(Flatten([ i \in 1..Len(reports) |-> reports[i].issues ]))

(***************************************************************************)
(* The producer: the builder's with_* options, set before the reports are   *)
(* built; then Report::new, with_issue and with_footer on the report under  *)
(* construction.                                                            *)
(***************************************************************************)
NewReport ==
    /\ pc = "build"
    /\ Len(reports) < MaxReports
    /\ reports' = Append(reports, Report_new)
    /\ UNCHANGED << draft, threads, source_map, builder, pc >>
    /\ UNCHANGED call

WithIssue(issue) ==
    /\ pc = "build"
    /\ Len(reports) > 0
    /\ TotalIssues < MaxIssues
    /\ reports' = [ reports EXCEPT ![Len(reports)] = Report_with_issue(@, issue) ]
    /\ UNCHANGED << draft, threads, source_map, builder, pc >>
    /\ UNCHANGED call

WithFooter(footer) ==
    /\ pc = "build"
    /\ Len(reports) > 0
    /\ reports' = [ reports EXCEPT ![Len(reports)] = Report_with_footer(@, footer) ]
    /\ UNCHANGED << draft, threads, source_map, builder, pc >>
    /\ UNCHANGED call

WithColors(c) ==
    /\ pc = "build"
    /\ reports = << >>
    /\ builder' = ReportBuilder_with_colors(builder, c)
    /\ UNCHANGED << draft, threads, source_map, reports, pc >>
    /\ UNCHANGED call

WithCharset(c) ==
    /\ pc = "build"
    /\ reports = << >>
    /\ builder' = ReportBuilder_with_charset(builder, c)
    /\ UNCHANGED << draft, threads, source_map, reports, pc >>
    /\ UNCHANGED call

WithStyle(s) ==
    /\ pc = "build"
    /\ reports = << >>
    /\ builder' = ReportBuilder_with_style(builder, s)
    /\ UNCHANGED << draft, threads, source_map, reports, pc >>
    /\ UNCHANGED call

(***************************************************************************)
(* The render calls.                                                        *)
(***************************************************************************)
\* the reportable the caller passes: its report when it has one, a collection of
\* its reports in the order they were built when it has several
Reportables ==
    IF Len(reports) = 0 THEN {}
    ELSE IF Len(reports) = 1 THEN { [ kind |-> "Report", report |-> reports[1] ] }
    ELSE { [ kind |-> "ReportCollection", refs |-> reports ] }

\* write, up to the first iteration of `for report in reportable.to_reports()`
WriteBegin(w, r) ==
    /\ pc \in { "build", "done" }
    /\ Len(reports) > 0
    /\ pc' = "render"
    /\ writer' = w
    /\ reportable' = r
    /\ queue' = to_reports(r)
    /\ diags' = << >>
    /\ sink' = << >>
    /\ result' = None
    /\ UNCHANGED << draft, threads, source_map, reports, builder, last >>

\* ReportBuilder::write called with the caller's own sink
write ==
    \E r \in Reportables : WriteBegin([ dest |-> "caller", color |-> "caller" ], r)

\* ReportBuilder::print
print ==
    \E r \in Reportables :
        WriteBegin([ dest |-> "stdout", color |-> TermColorChoice(builder) ], r)

\* a variant of eprint with a routine of its own that leaves the footers out
eprintIssuesOnly ==
    \E r \in Reportables :
        /\ WriteBegin([ dest |-> "stderr", color |-> TermColorChoice(builder) ],
                      [ kind |-> "ReportCollection",
                        refs |-> [ i \in 1..Len(to_reports(r)) |->
                                     [ to_reports(r)[i] EXCEPT !.footer = None ] ] ])

\* ReportBuilder::eprint
eprint ==
    \E r \in Reportables :
        WriteBegin([ dest |-> "stderr", color |-> TermColorChoice(builder) ], r)

\* ReportBuilder::as_string, up to its call of write
as_string ==
    \E r \in Reportables :
        WriteBegin([ dest |-> "buffer", color |-> TermColorChoice(builder) ], r)

\* a variant in which diagnostics pushes the summary to the footer's own notes
NextReportStoringSummary ==
    /\ pc = "render"
    /\ diags = << >>
    /\ queue /= << >>
    /\ \E order \in HashOrders(queue[1]) :
           /\ diags' = Diagnostics(queue[1], FilesIds(builder.source_map), order)
           /\ reports' = [ i \in 1..Len(reports) |->
                             IF reports[i] = queue[1] /\ IsSome(reports[i].footer)
                             THEN [ reports[i] EXCEPT !.footer[1].notes =
                                        FooterNotes(reports[i], reports[i].footer[1], order) ]
                             ELSE reports[i] ]
    /\ queue' = Tail(queue)
    /\ UNCHANGED << draft, threads, source_map, builder, pc, writer, reportable, sink, result, last >>

\* the outer loop of write takes the next report and calls self.diagnostics
NextReport ==
    /\ pc = "render"
    /\ diags = << >>
    /\ queue /= << >>
    /\ \E order \in HashOrders(queue[1]) :
           diags' = Diagnostics(queue[1], FilesIds(builder.source_map), order)
    /\ queue' = Tail(queue)
    /\ UNCHANGED << draft, threads, source_map, reports, builder, pc, writer, reportable, sink, result, last >>

\* what the call returns to its caller: as_string returns the buffer's text
Returned(res) ==
    IF res.ok /\ writer.dest = "buffer" THEN [ ok |-> TRUE, value |-> sink ] ELSE res

Return(res) ==
    /\ pc' = "done"
    /\ result' = Some(Returned(res))
    /\ last' = IF writer.dest = "buffer"
               THEN Some([ result |-> Returned(res), written |-> sink ])
               ELSE last
    /\ queue' = << >>
    /\ diags' = << >>

\* a variant that drops a diagnostic whose emission fails and goes on
EmitStepSkipFailed ==
    /\ pc = "render"
    /\ diags /= << >>
    /\ \E o \in EmitOutcomes(CodespanDisplayStyle(builder), Files(builder.source_map),
                             diags[1], writer.dest /= "buffer") :
           /\ sink' = IF o.ok THEN Append(sink, o.block) ELSE sink
           /\ diags' = Tail(diags)
           /\ UNCHANGED << pc, queue, result, last >>
    /\ UNCHANGED << draft, threads, source_map, reports, builder, writer, reportable >>

\* one iteration of the inner loop of write: emit the next diagnostic
EmitStep ==
    /\ pc = "render"
    /\ diags /= << >>
    /\ \E o \in EmitOutcomes(CodespanDisplayStyle(builder), Files(builder.source_map),
                             diags[1], writer.dest /= "buffer") :
           IF o.ok
           THEN /\ sink' = Append(sink, o.block)
                /\ diags' = Tail(diags)
                /\ UNCHANGED << pc, queue, result, last >>
           ELSE /\ Return([ ok |-> FALSE, err |-> MapError(o.err) ])
                /\ UNCHANGED sink
    /\ UNCHANGED << draft, threads, source_map, reports, builder, writer, reportable >>

\* both loops are exhausted: Ok(())
WriteEnd ==
    /\ pc = "render"
    /\ diags = << >>
    /\ queue = << >>
    /\ Return([ ok |-> TRUE, value |-> "()" ])
    /\ UNCHANGED << draft, threads, source_map, reports, builder, writer, reportable, sink >>

Next ==
    \/ NewReport
    \/ \E issue \in IssueSamples : WithIssue(issue)
    \/ \E footer \in FooterSamples : WithFooter(footer)
    \/ \E c \in ColorChoice : WithColors(c)
    \/ \E c \in CharSet : WithCharset(c)
    \/ \E s \in DisplayStyle : WithStyle(s)
    \/ write
    \/ print
    \/ eprint
    \/ as_string
    \/ NextReport
    \/ EmitStep
    \/ WriteEnd

Spec == Init /\ [][Next]_vars

(***************************************************************************)
(* Severity aggregation and the footer summary as functions of the issue    *)
(* list: one report with a summary footer, issues of every severity, then   *)
(* Report::severity or a render of the report.                              *)
(***************************************************************************)
InitSev ==
    /\ source_map = << SourceA, SourceB >>
    /\ builder = ReportBuilder_new(source_map)
    /\ reports = << Report_with_footer(Report_new, ReportFooter_new("done")) >>
    /\ pc = "build"
    /\ writer = NoWriter
    /\ reportable = NoReportable
    /\ queue = << >>
    /\ diags = << >>
    /\ sink = << >>
    /\ result = None
    /\ last = None
    /\ draft = None
    /\ threads = << >>

\* Report::with_issue(Issue::new(severity, message))
SevWithIssue(sev) ==
    /\ pc = "build"
    /\ Len(reports[1].issues) < MaxSevIssues
    /\ reports' = [ reports EXCEPT ![1] = Report_with_issue(@, Issue_new(sev, "m")) ]
    /\ UNCHANGED << draft, threads, source_map, builder, pc >>
    /\ UNCHANGED call

\* a call of Report::severity on the latest report
severity ==
    /\ pc = "build"
    /\ Len(reports) > 0
    /\ pc' = "severity"
    /\ result' = Some(Report_severity(reports[Len(reports)]))
    /\ UNCHANGED << draft, threads, source_map, reports, builder, writer, reportable, queue, diags, sink, last >>

NextSev ==
    \/ \E sev \in IssueSeverity : SevWithIssue(sev)
    \/ severity
    \/ as_string
    \/ NextReport
    \/ EmitStep
    \/ WriteEnd

SpecSev == InitSev /\ [][NextSev]_vars

(***************************************************************************)
(* Vocabulary of the properties below, stated without the operators of the  *)
(* model: the severity order and the lower-case tags as the specification   *)
(* gives them.                                                              *)
(***************************************************************************)
AscendingSeverities == << "Note", "Help", "Warning", "Error", "Bug" >>
LowerCaseTags == << "note", "help", "warning", "error", "bug" >>

Position(s) == CHOOSE i \in 1..Len(AscendingSeverities) : AscendingSeverities[i] = s

SeveritiesOf(report) == { report.issues[i].severity : i \in 1..Len(report.issues) }

CountOf(report, s) == Cardinality({ i \in 1..Len(report.issues) : report.issues[i].severity = s })

\* C2: Report::severity() is None for an empty issue list; otherwise it is Some(s)
\* where s is the severity of one of the issues and no issue has a severity above s
\* in the order Note < Help < Warning < Error < Bug.  The value is fixed by the set
\* of severities alone, so it does not depend on the order of the issues.
SeverityIsMaximum ==
    pc = "severity" =>
        LET report == reports[Len(reports)]
            r == result[1]
        IN IF Len(report.issues) = 0
           THEN r = None
           ELSE /\ IsSome(r)
                /\ r[1] \in SeveritiesOf(report)
                /\ \A s \in SeveritiesOf(report) : Position(s) <= Position(r[1])

\* Report::severity returned for a report whose highest severity is neither the
\* first nor the last issue added
SeverityIsMaximumWitness ==
    /\ pc = "severity"
    /\ Len(reports[Len(reports)].issues) = 3
    /\ reports[Len(reports)].issues[1].severity = "Help"
    /\ reports[Len(reports)].issues[2].severity = "Warning"
    /\ reports[Len(reports)].issues[3].severity = "Note"
    /\ result = Some(Some("Warning"))

RECURSIVE ListingFrom(_, _)
\* the entries "{count} {tag}(s)" of the severities of rank >= k that occur, in rank order
ListingFrom(report, k) ==
    IF k > Len(AscendingSeverities) THEN << >>
    ELSE (IF CountOf(report, AscendingSeverities[k]) > 0
          THEN << ToString(CountOf(report, AscendingSeverities[k])) \o " "
                  \o LowerCaseTags[k] \o "(s)" >>
          ELSE << >>)
         \o ListingFrom(report, k + 1)

RECURSIVE CommaSeparated(_)
CommaSeparated(entries) ==
    IF Len(entries) = 0 THEN ""
    ELSE IF Len(entries) = 1 THEN entries[1]
    ELSE entries[1] \o ", " \o CommaSeparated(Tail(entries))

\* C3: with summary = true the generated note lists one entry "{count} {severity}(s)"
\* per severity that occurs, in ascending severity rank whatever the order of the
\* issues, joined by ", "; for 2 Error + 1 Warning it reads "1 warning(s), 2 error(s)".
SummaryAscending ==
    (/\ pc = "render"
     /\ diags /= << >>
     /\ IsSome(reports[1].footer)
     /\ reports[1].footer[1].summary) =>
        LET report == reports[1]
            notes == diags[Len(diags)].notes
        IN /\ Len(notes) = Len(report.footer[1].notes) + 1
           /\ notes[Len(notes)] = "summary: " \o CommaSeparated(ListingFrom(report, 1))
           /\ (Len(report.issues) = 3 /\ CountOf(report, "Error") = 2
                   /\ CountOf(report, "Warning") = 1)
                  => notes[Len(notes)] = "summary: 1 warning(s), 2 error(s)"

\* the summary of a report whose issues were added as Error, Warning, Error
SummaryAscendingWitness ==
    /\ pc = "render"
    /\ diags /= << >>
    /\ Len(reports[1].issues) = 3
    /\ reports[1].issues[1].severity = "Error"
    /\ reports[1].issues[2].severity = "Warning"
    /\ reports[1].issues[3].severity = "Error"
    /\ diags[Len(diags)].notes = << "summary: 1 warning(s), 2 error(s)" >>

(***************************************************************************)
(* Vocabulary for the properties of a render call: the reports a reportable *)
(* stands for, and the plan of a call, i.e. the diagnostics a complete      *)
(* render writes, in the order the specification gives.                     *)
(***************************************************************************)
ReportsOf(rb) ==
    IF rb.kind = "Report" THEN << rb.report >>
    ELSE IF rb.kind = "ReportCollection" THEN rb.refs
    ELSE << >>

PlanOfReport(reps, r) ==
    [ j \in 1..Len(reps[r].issues) |-> [ report |-> r, kind |-> "issue", index |-> j ] ]
    \o (IF IsSome(reps[r].footer)
        THEN << [ report |-> r, kind |-> "footer", index |-> 0 ] >>
        ELSE << >>)

Plan(rb) == Flatten([ r \in 1..Len(ReportsOf(rb)) |-> PlanOfReport(ReportsOf(rb), r) ])

\* the block is the one of the planned item
BlockIsOf(block, rb, item) ==
    LET report == ReportsOf(rb)[item.report]
        d == block.diagnostic
    IN IF item.kind = "issue"
       THEN LET issue == report.issues[item.index]
            IN /\ d.message = issue.message
               /\ d.code = issue.code
               /\ d.notes = issue.notes
               /\ Len(d.labels) = Len(issue.annotations) + Len(issue.source)
       ELSE /\ d.message = report.footer[1].message
            /\ d.code = None
            /\ d.labels = << >>

SinkFollowsPlan ==
    /\ Len(sink) <= Len(Plan(reportable))
    /\ \A k \in 1..Len(sink) : BlockIsOf(sink[k], reportable, Plan(reportable)[k])

NamesOf(sm) == { sm[i].name : i \in 1..Len(sm) }

\* the origins an issue refers to: those of its annotations and of its primary span
OriginsOf(issue) ==
    { issue.annotations[i].origin : i \in 1..Len(issue.annotations) }
    \cup { issue.source[i][1] : i \in 1..Len(issue.source) }

HasMissingOrigin(rb) ==
    \E r \in 1..Len(ReportsOf(rb)) : \E j \in 1..Len(ReportsOf(rb)[r].issues) :
        \E o \in OriginsOf(ReportsOf(rb)[r].issues[j]) : o \notin NamesOf(source_map)

\* C1: if an annotation's origin or a primary span's origin is not the name of a
\* source of the SourceMap, the render call returns FileMissing, whether the map is
\* empty or not; the reference is not resolved against another source.  (Stated for
\* the default display style and for calls whose sink accepted every write.)
MissingOriginFails ==
    (/\ pc = "done"
     /\ builder.style = "Default"
     /\ HasMissingOrigin(reportable)
     /\ ~(~result[1].ok /\ result[1].err.kind = "Io")) =>
        /\ ~result[1].ok
        /\ result[1].err.kind = "FileMissing"

\* C4: in a successful render the blocks reach the sink in the order: reports in list
\* order, within a report its issues in list order, then its footer block if any;
\* |issues| + (1 if footer) blocks per report, none duplicated or skipped.
BlocksInOrder ==
    (pc = "done" /\ result[1].ok) =>
        /\ Len(sink) = Len(Plan(reportable))
        /\ SinkFollowsPlan

\* a successful render of a collection of two reports, each with an issue and a footer
BlocksInOrderWitness ==
    /\ pc = "done"
    /\ result[1].ok
    /\ reportable.kind = "ReportCollection"
    /\ Len(reportable.refs) = 2
    /\ Len(reportable.refs[1].issues) = 1
    /\ IsSome(reportable.refs[1].footer)
    /\ Len(reportable.refs[2].issues) = 1
    /\ reportable.refs[1].issues[1] /= reportable.refs[2].issues[1]
    /\ Len(sink) = 4

RECURSIVE DistinctInOrder(_, _)
DistinctInOrder(names, seen) ==
    IF Len(names) = 0 THEN << >>
    ELSE IF names[1] \in seen THEN DistinctInOrder(Tail(names), seen)
    ELSE << names[1] >> \o DistinctInOrder(Tail(names), seen \cup { names[1] })

\* C6: for an issue with a primary span and annotations in several files, the excerpt
\* of the primary span's file comes first, then one excerpt per other file in the
\* order the annotations were added, also when the first annotation is a cross-file one.
PrimaryFileFirst ==
    (pc \in { "render", "done" } /\ builder.style = "Default") =>
        \A k \in 1..Len(sink) :
            LET item == Plan(reportable)[k]
                issue == ReportsOf(reportable)[item.report].issues[item.index]
            IN (/\ item.kind = "issue"
                /\ IsSome(issue.source)
                /\ OriginsOf(issue) \subseteq NamesOf(source_map)) =>
                   sink[k].excerpts =
                       DistinctInOrder(
                           << issue.source[1][1] >>
                           \o [ i \in 1..Len(issue.annotations) |-> issue.annotations[i].origin ],
                           {})

\* C8: two as_string renders of the same reportable against the same SourceMap with
\* the same configuration return the same result, the footer summary included.
AsStringDeterministic ==
    [][ (pc = "render" /\ pc' = "done" /\ writer.dest = "buffer" /\ IsSome(last)) =>
            last' = last ]_vars

\* a second as_string call about to return, for a report whose summary has two entries
AsStringDeterministicWitness ==
    /\ pc = "render"
    /\ writer.dest = "buffer"
    /\ IsSome(last)
    /\ last[1].result.ok
    /\ queue = << >>
    /\ diags = << >>
    /\ sink = last[1].written
    /\ \E k \in 1..Len(sink) :
           \E n \in 1..Len(sink[k].diagnostic.notes) :
               sink[k].diagnostic.notes[n] = "summary: 1 warning(s), 1 bug(s)"

RenderLeavesInputs ==
    [][ (pc = "render" \/ pc' = "render") =>
            /\ source_map' = source_map
            /\ reports' = reports
            /\ builder' = builder
            /\ pc = "render" => reportable' = reportable ]_vars

\* a finished render whose footer block carries one note more than the footer stores
RenderLeavesInputsWitness ==
    /\ pc = "done"
    /\ IsSome(last)
    /\ Len(sink) >= 1
    /\ IsSome(reports[Len(reports)].footer)
    /\ Len(sink[Len(sink)].diagnostic.notes) = Len(reports[Len(reports)].footer[1].notes) + 1
    /\ sink[Len(sink)].diagnostic.labels = << >>

(***************************************************************************)
(* The builder's configuration as a function of the calls made on it:       *)
(* ReportBuilder::new for some SourceMap, then with_colors, with_charset    *)
(* and with_style in any order and number.  `last` records the latest call  *)
(* (its name, its argument, the builder it was made on) and, per option,    *)
(* the argument of the latest call made for it since the builder was        *)
(* constructed.                                                             *)
(***************************************************************************)
NoCalls == [ colors |-> None, charset |-> None, style |-> None ]

CallsOf(l) == IF IsSome(l) THEN l[1].calls ELSE NoCalls

\* ReportBuilder::new(&source_map)
new ==
    /\ pc \in { "build", "new", "with" }
    /\ \E sm \in SourceMaps :
           /\ source_map' = sm
           /\ builder' = ReportBuilder_new(sm)
           /\ last' = Some([ op |-> "new", arg |-> sm, before |-> builder, calls |-> NoCalls ])
    /\ pc' = "new"
    /\ UNCHANGED << draft, threads, reports, writer, reportable, queue, diags, sink, result >>

\* builder.with_colors(c)
with_colors(c) ==
    /\ pc \in { "build", "new", "with" }
    /\ builder' = ReportBuilder_with_colors(builder, c)
    /\ last' = Some([ op |-> "with_colors", arg |-> c, before |-> builder,
                      calls |-> [ CallsOf(last) EXCEPT !.colors = Some(c) ] ])
    /\ pc' = "with"
    /\ UNCHANGED << draft, threads, source_map, reports, writer, reportable, queue, diags, sink,
                    result >>

\* builder.with_charset(c)
with_charset(c) ==
    /\ pc \in { "build", "new", "with" }
    /\ builder' = ReportBuilder_with_charset(builder, c)
    /\ last' = Some([ op |-> "with_charset", arg |-> c, before |-> builder,
                      calls |-> [ CallsOf(last) EXCEPT !.charset = Some(c) ] ])
    /\ pc' = "with"
    /\ UNCHANGED << draft, threads, source_map, reports, writer, reportable, queue, diags, sink,
                    result >>

\* builder.with_style(s)
with_style(s) ==
    /\ pc \in { "build", "new", "with" }
    /\ builder' = ReportBuilder_with_style(builder, s)
    /\ last' = Some([ op |-> "with_style", arg |-> s, before |-> builder,
                      calls |-> [ CallsOf(last) EXCEPT !.style = Some(s) ] ])
    /\ pc' = "with"
    /\ UNCHANGED << draft, threads, source_map, reports, writer, reportable, queue, diags, sink,
                    result >>

NextBuilder ==
    \/ new
    \/ \E c \in ColorChoice : with_colors(c)
    \/ \E c \in CharSet : with_charset(c)
    \/ \E s \in DisplayStyle : with_style(s)

SpecBuilder == Init /\ [][NextBuilder]_vars

\* C11: ReportBuilder::new(source_map) yields colors = Auto, charset = Ascii,
\* style = Default and the SourceMap it was given, whatever builder existed before.
NewHasDefaults ==
    pc = "new" =>
        /\ builder.colors = "Auto"
        /\ builder.charset = "Ascii"
        /\ builder.style = "Default"
        /\ builder.source_map = last[1].arg
        /\ DOMAIN builder = { "source_map", "colors", "charset", "style" }

\* a builder constructed for the two-file map after one that had every option set and
\* borrowed the empty map
NewHasDefaultsWitness ==
    /\ pc = "new"
    /\ last[1].arg = << SourceA, SourceB >>
    /\ last[1].before.source_map = << >>
    /\ last[1].before.colors = "Always"
    /\ last[1].before.charset = "Unicode"
    /\ last[1].before.style = "Compact"

\* C12: with_colors, with_charset and with_style each set their own option to the
\* argument and leave the two other options and the source_map as they were; after
\* any sequence of calls every option holds the argument of the latest call made for
\* it, or its default if there was none, however the calls were interleaved.
OptionsIndependent ==
    pc = "with" =>
        LET c == last[1]
            own == CASE c.op = "with_colors" -> "colors"
                     [] c.op = "with_charset" -> "charset"
                     [] c.op = "with_style" -> "style"
        IN /\ builder[own] = c.arg
           /\ \A f \in { "source_map", "colors", "charset", "style" } \ { own } :
                  builder[f] = c.before[f]
           /\ builder.colors = (IF IsSome(c.calls.colors) THEN c.calls.colors[1] ELSE "Auto")
           /\ builder.charset = (IF IsSome(c.calls.charset) THEN c.calls.charset[1] ELSE "Ascii")
           /\ builder.style = (IF IsSome(c.calls.style) THEN c.calls.style[1] ELSE "Default")

\* with_charset called on a builder whose three options had all been set before
OptionsIndependentWitness ==
    /\ pc = "with"
    /\ last[1].op = "with_charset"
    /\ last[1].arg = "Ascii"
    /\ last[1].before.colors = "Never"
    /\ last[1].before.charset = "Unicode"
    /\ last[1].before.style = "Comfortable"
    /\ builder.colors = "Never"

(***************************************************************************)
(* The fluent chains.  `draft` holds the value under construction, `last`   *)
(* the latest call of the chain: its name, its argument and the value it    *)
(* was made on.  A finished Issue is turned into text (to_string, through   *)
(* its Display impl); a finished Report is handed to                        *)
(* ReportBuilder::diagnostics.                                              *)
(***************************************************************************)
MaxChain == 2

\* the annotations the chains attach; Annotation::new takes any two offsets
ChainAnnotations ==
    { Annotation_with_message(Annotation_primary("a.ara", 0, 1), "here"),
      Annotation_new("Secondary", "b.ara", 12, 9) }

ChainCodes == { "E1", "E2" }
ChainNotes == { "n1", "n2" }
ChainSources == { << "a.ara", 4, 5 >>, << "b.ara", 7, 3 >> }

\* Issue::error / warning / help / note / bug
Issue_of(sev, code, message) ==
    CASE sev = "Error" -> Issue_error(code, message)
      [] sev = "Warning" -> Issue_warning(code, message)
      [] sev = "Help" -> Issue_help(code, message)
      [] sev = "Note" -> Issue_note(code, message)
      [] sev = "Bug" -> Issue_bug(code, message)

IssuePrimaryNoSource ==
    Issue_with_annotation(
        Issue_with_annotation(
            Issue_new("Error", "undefined name"),
            Annotation_with_message(Annotation_primary("a.ara", 0, 1), "here")),
        Annotation_secondary("b.ara", 9, 12))

\* the finished issues and footers a Report chain is given
ChainIssues ==
    { IssueMissingSecondary, IssueCrossFileFirst, IssuePrimaryNoSource, Issue_new("Note", "fyi") }

ChainFooters ==
    { ReportFooter_new("done"),
      ReportFooter_with_note(ReportFooter_with_note(ReportFooter_new("failed"), "n1"), "n2"),
      ReportFooter_with_summary(ReportFooter_with_note(ReportFooter_new("stopped"), "n1"), FALSE) }

\* one call of a chain: the value it returns becomes the draft
ChainStep(kind, op, arg, value) ==
    /\ draft' = Some([ kind |-> kind, value |-> value ])
    /\ last' = Some([ op |-> op, arg |-> arg, before |-> draft ])
    /\ pc' = "chain"
    /\ result' = None
    /\ UNCHANGED << threads, source_map, reports, builder, writer, reportable, queue, diags, sink >>

Drafting(kind) == pc = "chain" /\ IsSome(draft) /\ draft[1].kind = kind

ChainIdle == pc \in { "build", "chain", "to_string", "diagnostics" }

\* Issue::new(severity, message)
StartIssue(sev, message) ==
    /\ ChainIdle
    /\ ChainStep("Issue", "Issue::new", << sev, message >>, Issue_new(sev, message))

\* Issue::error(code, message) and its four siblings
StartIssueWithCode(sev, code, message) ==
    /\ ChainIdle
    /\ ChainStep("Issue", "Issue::" \o SeverityDisplay(sev), << code, message >>,
                 Issue_of(sev, code, message))

IssueWithCode(code) ==
    /\ Drafting("Issue")
    /\ ChainStep("Issue", "Issue::with_code", code, Issue_with_code(draft[1].value, code))

IssueWithAnnotation(annotation) ==
    /\ Drafting("Issue")
    /\ Len(draft[1].value.annotations) < MaxChain
    /\ ChainStep("Issue", "Issue::with_annotation", annotation,
                 Issue_with_annotation(draft[1].value, annotation))

IssueWithNote(note) ==
    /\ Drafting("Issue")
    /\ Len(draft[1].value.notes) < MaxChain
    /\ ChainStep("Issue", "Issue::with_note", note, Issue_with_note(draft[1].value, note))

IssueWithSource(source) ==
    /\ Drafting("Issue")
    /\ ChainStep("Issue", "Issue::with_source", source,
                 Issue_with_source(draft[1].value, source[1], source[2], source[3]))

\* issue.to_string(), the text the Display impl writes
to_string ==
    /\ Drafting("Issue")
    /\ pc' = "to_string"
    /\ result' = Some(Issue_fmt(draft[1].value))
    /\ UNCHANGED << draft, threads, source_map, reports, builder, writer, reportable, queue,
                    diags, sink, last >>

\* ReportFooter::new(message)
StartFooter(message) ==
    /\ ChainIdle
    /\ ChainStep("ReportFooter", "ReportFooter::new", message, ReportFooter_new(message))

FooterWithNote(note) ==
    /\ Drafting("ReportFooter")
    /\ Len(draft[1].value.notes) < MaxChain
    /\ ChainStep("ReportFooter", "ReportFooter::with_note", note,
                 ReportFooter_with_note(draft[1].value, note))

FooterWithSummary(enabled) ==
    /\ Drafting("ReportFooter")
    /\ ChainStep("ReportFooter", "ReportFooter::with_summary", enabled,
                 ReportFooter_with_summary(draft[1].value, enabled))

\* Report::new()
StartReport ==
    /\ ChainIdle
    /\ ChainStep("Report", "Report::new", << >>, Report_new)

ReportWithIssue(issue) ==
    /\ Drafting("Report")
    /\ Len(draft[1].value.issues) < MaxChain
    /\ ChainStep("Report", "Report::with_issue", issue, Report_with_issue(draft[1].value, issue))

ReportWithFooter(footer) ==
    /\ Drafting("Report")
    /\ ChainStep("Report", "Report::with_footer", footer,
                 Report_with_footer(draft[1].value, footer))

\* self.diagnostics(report, &files_ids) as write calls it
diagnostics ==
    /\ Drafting("Report")
    /\ pc' = "diagnostics"
    /\ \E order \in HashOrders(draft[1].value) :
           result' = Some(Diagnostics(draft[1].value, FilesIds(builder.source_map), order))
    /\ UNCHANGED << draft, threads, source_map, reports, builder, writer, reportable, queue,
                    diags, sink, last >>

NextChain ==
    \/ \E sev \in IssueSeverity : StartIssue(sev, "m")
    \/ \E sev \in IssueSeverity : \E code \in ChainCodes : StartIssueWithCode(sev, code, "m")
    \/ \E code \in ChainCodes : IssueWithCode(code)
    \/ \E annotation \in ChainAnnotations : IssueWithAnnotation(annotation)
    \/ \E note \in ChainNotes : IssueWithNote(note)
    \/ \E source \in ChainSources : IssueWithSource(source)
    \/ to_string
    \/ StartFooter("done")
    \/ \E note \in ChainNotes : FooterWithNote(note)
    \/ \E enabled \in BOOLEAN : FooterWithSummary(enabled)
    \/ StartReport
    \/ \E issue \in ChainIssues : ReportWithIssue(issue)
    \/ \E footer \in ChainFooters : ReportWithFooter(footer)
    \/ diagnostics

InitChain == Init /\ source_map = << SourceA, SourceB >>

SpecChain == InitChain /\ [][NextChain]_vars

\* C13: the text of an Issue is "{severity}[{code}]: {message}" with a code and
\* "{severity}: {message}" without one, {severity} being the lower-case tag; the
\* suffix " at {origin}@{from}:{to}" is there exactly when the issue has a primary
\* span; annotations and notes are not part of the text.
IssueText ==
    pc = "to_string" =>
        LET issue == draft[1].value
            tag == LowerCaseTags[Position(issue.severity)]
            head == IF IsSome(issue.code)
                    THEN tag \o "[" \o issue.code[1] \o "]: " \o issue.message
                    ELSE tag \o ": " \o issue.message
            suffix == IF IsSome(issue.source)
                      THEN " at " \o issue.source[1][1] \o "@" \o ToString(issue.source[1][2])
                           \o ":" \o ToString(issue.source[1][3])
                      ELSE ""
        IN /\ result[1] = head \o suffix
           /\ (issue.severity = "Bug" /\ issue.code = None /\ issue.source = None)
                  => result[1] = "bug: m"
           /\ (issue.severity = "Error" /\ issue.code = Some("E2")
                   /\ issue.source = Some(<< "b.ara", 7, 3 >>))
                  => result[1] = "error[E2]: m at b.ara@7:3"

\* the text of a warning that has a code, a primary span, two annotations and two notes
IssueTextWitness ==
    /\ pc = "to_string"
    /\ Len(draft[1].value.annotations) = 2
    /\ Len(draft[1].value.notes) = 2
    /\ result = Some("warning[E1]: m at a.ara@4:5")

\* C14: every Annotation attached to an Issue has from <= to, and so has every
\* primary span set with Issue::with_source.
SpansOrdered ==
    Drafting("Issue") =>
        LET issue == draft[1].value
        IN /\ \A i \in 1..Len(issue.annotations) :
                  issue.annotations[i].from <= issue.annotations[i].to
           /\ IsSome(issue.source) => issue.source[1][2] <= issue.source[1][3]

\* the fields of a record other than the one a call is about
OtherFieldsKept(after, before, field) ==
    /\ DOMAIN after = DOMAIN before
    /\ \A f \in DOMAIN before \ { field } : after[f] = before[f]

AppendedTo(after, before, field, element) ==
    /\ Len(after[field]) = Len(before[field]) + 1
    /\ \A i \in 1..Len(before[field]) : after[field][i] = before[field][i]
    /\ after[field][Len(after[field])] = element
    /\ OtherFieldsKept(after, before, field)

Replaced(after, before, field, value) ==
    /\ after[field] = value
    /\ OtherFieldsKept(after, before, field)

\* C17: Issue::with_annotation, Issue::with_note, Report::with_issue and
\* ReportFooter::with_note append one element at the end of their list and keep the
\* earlier elements, their order and every other field; Issue::with_code,
\* Issue::with_source, Report::with_footer and ReportFooter::with_summary replace
\* the value of their field, the last call winning, and change nothing else.
ChainCallsAppendOrReplace ==
    (pc = "chain" /\ IsSome(last[1].before)) =>
        LET c == last[1]
            after == draft[1].value
            before == c.before[1].value
        IN /\ c.op = "Issue::with_annotation" => AppendedTo(after, before, "annotations", c.arg)
           /\ c.op = "Issue::with_note" => AppendedTo(after, before, "notes", c.arg)
           /\ c.op = "Report::with_issue" => AppendedTo(after, before, "issues", c.arg)
           /\ c.op = "ReportFooter::with_note" => AppendedTo(after, before, "notes", c.arg)
           /\ c.op = "Issue::with_code" => Replaced(after, before, "code", << c.arg >>)
           /\ c.op = "Issue::with_source" => Replaced(after, before, "source", << c.arg >>)
           /\ c.op = "Report::with_footer" => Replaced(after, before, "footer", << c.arg >>)
           /\ c.op = "ReportFooter::with_summary" => Replaced(after, before, "summary", c.arg)

\* a second annotation appended to an issue that has a code, a span, an annotation and
\* a note
ChainCallsAppendOrReplaceWitness ==
    /\ pc = "chain"
    /\ last[1].op = "Issue::with_annotation"
    /\ IsSome(last[1].before)
    /\ Len(last[1].before[1].value.annotations) = 1
    /\ last[1].before[1].value.annotations[1] /= last[1].arg
    /\ IsSome(last[1].before[1].value.code)
    /\ IsSome(last[1].before[1].value.source)
    /\ Len(last[1].before[1].value.notes) = 1

\* C18: the labels of an issue's diagnostic are one label per annotation, in the
\* order the annotations were added, each with the annotation's style, its range
\* from..to and its message exactly when it has one; then, exactly when the issue
\* has a primary span, one primary label without message for that span.  No
\* annotation is dropped or replaced by the span's label.
LabelsOfIssue ==
    pc = "diagnostics" =>
        LET report == draft[1].value
        IN \A i \in 1..Len(report.issues) :
               LET issue == report.issues[i]
                   labels == result[1][i].labels
                   n == Len(issue.annotations)
               IN /\ Len(labels) = n + (IF issue.source = None THEN 0 ELSE 1)
                  /\ \A k \in 1..n :
                         /\ labels[k].style = issue.annotations[k].type
                         /\ labels[k].from = issue.annotations[k].from
                         /\ labels[k].to = issue.annotations[k].to
                         /\ labels[k].message = issue.annotations[k].message
                  /\ issue.source /= None =>
                         /\ labels[n + 1].style = "Primary"
                         /\ labels[n + 1].from = issue.source[1][2]
                         /\ labels[n + 1].to = issue.source[1][3]
                         /\ labels[n + 1].message = None

\* the diagnostics of a report whose first issue has a primary and a secondary
\* annotation and no span, and whose second has two annotations and a span
LabelsOfIssueWitness ==
    /\ pc = "diagnostics"
    /\ draft[1].value.issues = << IssuePrimaryNoSource, IssueCrossFileFirst >>
    /\ Len(result[1][1].labels) = 2
    /\ Len(result[1][2].labels) = 3

\* the highest severity among the issues of a report that has issues
HighestSeverity(report) ==
    CHOOSE s \in SeveritiesOf(report) : \A t \in SeveritiesOf(report) : Position(t) <= Position(s)

\* C20: the footer block has the footer's message as header, no code and no labels;
\* its notes are the footer's notes in their order, followed, exactly when summary
\* is true (the default of ReportFooter::new), by one generated "summary: ..." note;
\* its severity is the report's aggregate severity, Error for a report without issues.
FooterBlock ==
    /\ (pc = "chain" /\ last[1].op = "ReportFooter::new") => draft[1].value.summary = TRUE
    /\ (pc = "diagnostics" /\ draft[1].value.footer /= None) =>
           LET report == draft[1].value
               footer == report.footer[1]
               d == result[1][Len(result[1])]
               n == Len(footer.notes)
           IN /\ Len(result[1]) = Len(report.issues) + 1
              /\ d.message = footer.message
              /\ d.code = None
              /\ d.labels = << >>
              /\ \A k \in 1..n : d.notes[k] = footer.notes[k]
              /\ Len(d.notes) = n + (IF footer.summary THEN 1 ELSE 0)
              /\ footer.summary =>
                     d.notes[n + 1] = "summary: " \o CommaSeparated(ListingFrom(report, 1))
              /\ d.severity = "Severity::" \o (IF Len(report.issues) = 0 THEN "Error"
                                               ELSE HighestSeverity(report))
    /\ (pc = "diagnostics" /\ draft[1].value.footer = None) =>
           Len(result[1]) = Len(draft[1].value.issues)

\* the footer block of a report with a warning and a note issue, whose footer has two
\* notes of its own and the summary
FooterBlockWitness ==
    /\ pc = "diagnostics"
    /\ draft[1].value.footer /= None
    /\ draft[1].value.footer[1].summary
    /\ Len(draft[1].value.footer[1].notes) = 2
    /\ Len(draft[1].value.issues) = 2
    /\ result[1][3].severity = "Severity::Warning"
    /\ result[1][3].notes = << "n1", "n2", "summary: 1 note(s), 1 warning(s)" >>

(***************************************************************************)
(* Render calls on threads of their own.  write takes &self and             *)
(* &dyn Reportable; its config, files, files_ids and diagnostics are locals *)
(* of the call, and the sink is the caller's.  Each element of `threads`    *)
(* holds the locals of one call; `reports` and the builders are shared      *)
(* behind & references.  `emits` is the list of results the emit calls of   *)
(* the thread returned.                                                     *)
(***************************************************************************)
MaxThreads == 2

Threads == 1..MaxThreads

IdleThread == [ pc |-> "idle" ]

\* the reports the threads share
ParReports ==
    << Report_with_footer(
           Report_with_issue(Report_with_issue(Report_new, IssueCrossFileFirst),
                             IssueMissingSecondary),
           ReportFooter_new("done")),
       Report_with_issue(Report_new, IssuePrimaryNoSource) >>

\* one of the shared reports, or a collection of references to both
ParReportables ==
    { [ kind |-> "Report", report |-> reports[i] ] : i \in 1..Len(reports) }
    \cup { [ kind |-> "ReportCollection", refs |-> reports ] }

\* the shared builder, a builder with another style for the same SourceMap, or a
\* builder of the thread's own for a SourceMap of its own
ParBuilders ==
    { builder, ReportBuilder_with_style(builder, "Compact"), ReportBuilder_new(<< >>) }

InitPar ==
    /\ source_map = << SourceA, SourceB >>
    /\ builder = ReportBuilder_new(source_map)
    /\ reports = ParReports
    /\ pc = "threads"
    /\ writer = NoWriter
    /\ reportable = NoReportable
    /\ queue = << >>
    /\ diags = << >>
    /\ sink = << >>
    /\ result = None
    /\ last = None
    /\ draft = None
    /\ threads = [ t \in Threads |-> IdleThread ]

ThreadUnchanged ==
    UNCHANGED << source_map, reports, builder, pc, writer, reportable, queue, diags, sink,
                 result, last, draft >>

\* thread t calls write (or as_string, with a buffer) up to the outer loop
ThreadBegin(t, b, w, r) ==
    /\ threads[t].pc = "idle"
    /\ threads' = [ threads EXCEPT ![t] =
                      [ pc |-> "render", builder |-> b, writer |-> w, reportable |-> r,
                        queue |-> to_reports(r), diags |-> << >>, sink |-> << >>,
                        emits |-> << >>, result |-> None ] ]
    /\ ThreadUnchanged

\* a variant in which the threads take their reports from one list, that of the
\* longest-running call
ThreadNextReportShared(t) ==
    /\ threads[t].pc = "render"
    /\ threads[t].diags = << >>
    /\ \E u \in Threads :
           /\ threads[u].pc = "render"
           /\ threads[u].queue /= << >>
           /\ \A v \in Threads : (threads[v].pc = "render" /\ threads[v].queue /= << >>) => u <= v
           /\ \E order \in HashOrders(threads[u].queue[1]) :
                  threads' = [ threads EXCEPT
                      ![t].diags = Diagnostics(threads[u].queue[1],
                                               FilesIds(threads[t].builder.source_map), order),
                      ![u].queue = Tail(@) ]
    /\ ThreadUnchanged

\* the outer loop of write on thread t
ThreadNextReport(t) ==
    /\ threads[t].pc = "render"
    /\ threads[t].diags = << >>
    /\ threads[t].queue /= << >>
    /\ \E order \in HashOrders(threads[t].queue[1]) :
           threads' = [ threads EXCEPT
               ![t].diags = Diagnostics(threads[t].queue[1],
                                        FilesIds(threads[t].builder.source_map), order),
               ![t].queue = Tail(@) ]
    /\ ThreadUnchanged

\* the inner loop of write on thread t; `more` are failures of emit beyond those the
\* file lookup and the sink account for
ThreadEmit(t, more) ==
    /\ threads[t].pc = "render"
    /\ threads[t].diags /= << >>
    /\ \E o \in EmitOutcomes(CodespanDisplayStyle(threads[t].builder),
                             Files(threads[t].builder.source_map), threads[t].diags[1],
                             threads[t].writer.dest /= "buffer")
                \cup { [ ok |-> FALSE, err |-> e ] : e \in more } :
           threads' = [ threads EXCEPT ![t] =
               IF o.ok
               THEN [ @ EXCEPT !.sink = Append(@, o.block), !.diags = Tail(@),
                               !.emits = Append(@, o) ]
               ELSE [ @ EXCEPT !.pc = "done", !.emits = Append(@, o),
                               !.result = Some([ ok |-> FALSE, err |-> MapError(o.err) ]),
                               !.queue = << >>, !.diags = << >> ] ]
    /\ ThreadUnchanged

\* both loops of thread t are exhausted: Ok(()), or Ok(text of the buffer) for as_string
ThreadEnd(t) ==
    /\ threads[t].pc = "render"
    /\ threads[t].diags = << >>
    /\ threads[t].queue = << >>
    /\ threads' = [ threads EXCEPT ![t] =
           [ @ EXCEPT !.pc = "done",
                      !.result = Some(IF threads[t].writer.dest = "buffer"
                                      THEN [ ok |-> TRUE, value |-> threads[t].sink ]
                                      ELSE [ ok |-> TRUE, value |-> "()" ]) ] ]
    /\ ThreadUnchanged

BufferWriter(b) == [ dest |-> "buffer", color |-> TermColorChoice(b) ]

NextPar ==
    \E t \in Threads :
        \/ \E b \in ParBuilders : \E r \in ParReportables : ThreadBegin(t, b, BufferWriter(b), r)
        \/ ThreadNextReport(t)
        \/ ThreadEmit(t, {})
        \/ ThreadEnd(t)

SpecPar == InitPar /\ [][NextPar]_vars

(***************************************************************************)
(* The failures of emit.  files::Error of codespan_reporting is             *)
(* non_exhaustive, hence the catch-all arm of the match in write; "Other"   *)
(* stands for a variant outside the six that write names.  One thread       *)
(* renders with a sink of the caller's and emit may fail in every way.      *)
(***************************************************************************)
CodespanErrors ==
    { [ kind |-> "FileMissing" ],
      [ kind |-> "IndexTooLarge", given |-> 5, max |-> 3 ],
      [ kind |-> "LineTooLarge", given |-> 2, max |-> 1 ],
      [ kind |-> "ColumnTooLarge", given |-> 9, max |-> 4 ],
      [ kind |-> "InvalidCharBoundary", given |-> 1 ],
      [ kind |-> "Io", error |-> "WriteZero" ],
      [ kind |-> "Other" ] }

CallerWriter == [ dest |-> "caller", color |-> "caller" ]

NextErr ==
    \/ \E b \in ParBuilders : \E r \in ParReportables : ThreadBegin(1, b, CallerWriter, r)
    \/ ThreadNextReport(1)
    \/ ThreadEmit(1, CodespanErrors)
    \/ ThreadEnd(1)

SpecErr == InitPar /\ [][NextErr]_vars

(***************************************************************************)
(* What a render produces when it runs alone: the diagnostics of its        *)
(* reports in order, emitted one after the other into a buffer until one    *)
(* fails.                                                                   *)
(***************************************************************************)
RECURSIVE EmitAlone(_, _, _)
EmitAlone(b, ds, written) ==
    IF Len(ds) = 0 THEN [ ok |-> TRUE, written |-> written ]
    ELSE LET o == CHOOSE o \in EmitOutcomes(CodespanDisplayStyle(b), Files(b.source_map),
                                            ds[1], FALSE) : TRUE
         IN IF o.ok THEN EmitAlone(b, Tail(ds), Append(written, o.block))
            ELSE [ ok |-> FALSE, err |-> MapError(o.err), written |-> written ]

DiagnosticsAlone(b, r) ==
    Flatten([ i \in 1..Len(ReportsOf(r)) |->
                Diagnostics(ReportsOf(r)[i], FilesIds(b.source_map),
                            CHOOSE order \in HashOrders(ReportsOf(r)[i]) : TRUE) ])

Alone(b, r) == EmitAlone(b, DiagnosticsAlone(b, r), << >>)

\* C16: with several renders running concurrently, each into its own sink, over
\* shared Reports and shared or separate SourceMaps, every interleaving gives each
\* sink the output, and each call the result, that the render has when run alone;
\* the Reports and the SourceMap stay what they were.
RendersIsolated ==
    /\ reports = ParReports
    /\ source_map = << SourceA, SourceB >>
    /\ \A t \in Threads :
           threads[t].pc \in { "render", "done" } =>
               LET th == threads[t]
                   alone == Alone(th.builder, th.reportable)
               IN /\ \A i \in 1..Len(ReportsOf(th.reportable)) :
                         \E j \in 1..Len(reports) : ReportsOf(th.reportable)[i] = reports[j]
                  /\ Len(th.sink) <= Len(alone.written)
                  /\ th.sink = SubSeq(alone.written, 1, Len(th.sink))
                  /\ th.pc = "done" =>
                         /\ th.sink = alone.written
                         /\ th.result[1].ok = alone.ok
                         /\ alone.ok => th.result[1].value = alone.written
                         /\ ~alone.ok => th.result[1].err = alone.err

\* thread 1 has finished the collection while thread 2, rendering the same collection
\* with the same builder, is between two of its blocks
RendersIsolatedWitness ==
    /\ threads[1].pc = "done"
    /\ threads[1].result[1].ok
    /\ Len(threads[1].sink) = 4
    /\ threads[2].pc = "render"
    /\ threads[2].reportable = threads[1].reportable
    /\ threads[2].builder = threads[1].builder
    /\ Len(threads[2].sink) = 2

\* C19: a failure of emit comes back as the error variant of the same kind with the
\* same fields (FileMissing, IndexTooLarge, LineTooLarge, ColumnTooLarge,
\* InvalidCharBoundary, Io), any other failure wrapped in CodespanError; the failure
\* of an emit is never swallowed or turned into another variant, and a render
\* returns Ok only if every diagnostic was emitted with success.
ErrorsSurfaced ==
    threads[1].pc = "done" =>
        LET th == threads[1]
            n == Len(th.emits)
            res == th.result[1]
        IN /\ \A i \in 1..(n - 1) : th.emits[i].ok
           /\ res.ok <=> (\A i \in 1..n : th.emits[i].ok)
           /\ res.ok => n = Len(Plan(th.reportable))
           /\ ~res.ok =>
                  LET raw == th.emits[n].err
                  IN IF raw.kind \in { "FileMissing", "IndexTooLarge", "LineTooLarge",
                                       "ColumnTooLarge", "InvalidCharBoundary", "Io" }
                     THEN res.err = raw
                     ELSE res.err.kind = "CodespanError" /\ res.err.inner = raw

\* a render whose third emit failed with ColumnTooLarge { given: 9, max: 4 }
ErrorsSurfacedWitness ==
    /\ threads[1].pc = "done"
    /\ Len(threads[1].emits) = 3
    /\ Len(threads[1].sink) = 2
    /\ threads[1].result = Some([ ok |-> FALSE,
                                  err |-> [ kind |-> "ColumnTooLarge", given |-> 9, max |-> 4 ] ])

RECURSIVE SumOf(_)
SumOf(counts) == IF Len(counts) = 0 THEN 0 ELSE counts[1] + SumOf(Tail(counts))

\* the text of a listing: the severities sevs with the counts of the same index
ListingText(sevs, counts) ==
    CommaSeparated([ i \in 1..Len(sevs) |->
                       ToString(counts[i]) \o " " \o LowerCaseTags[Position(sevs[i])] \o "(s)" ])

\* the listings a report admits: severities that occur among its issues, none twice,
\* each with a count of at least 1, the counts adding up to the number of its issues
AdmissibleListings(report) ==
    LET n == Len(report.issues)
    IN UNION { { ListingText(sevs, counts) :
                   counts \in { c \in [ 1..Len(sevs) -> 1..n ] : SumOf(c) = n } } :
               sevs \in UNION { Orders(S) : S \in SUBSET SeveritiesOf(report) } }

\* C21: in the generated summary note the counts add up to the number of issues of
\* the footer's own report, not of the collection; every count is >= 1, no severity
\* is listed twice and none that has no issue; for a report with a summary footer and
\* no issues the note is exactly "summary: ".
SummaryCountsOwnReport ==
    pc \in { "render", "done" } =>
        \A k \in 1..Len(sink) :
            LET item == Plan(reportable)[k]
                report == ReportsOf(reportable)[item.report]
                notes == sink[k].diagnostic.notes
            IN (item.kind = "footer" /\ report.footer[1].summary) =>
                   /\ Len(notes) >= 1
                   /\ \E text \in AdmissibleListings(report) :
                          notes[Len(notes)] = "summary: " \o text
                   /\ Len(report.issues) = 0 => notes[Len(notes)] = "summary: "

\* a rendered collection of a report with one warning and a footer and a report with
\* one bug and a footer
SummaryCountsOwnReportWitness ==
    /\ pc = "done"
    /\ result[1].ok
    /\ reportable.kind = "ReportCollection"
    /\ Len(sink) = 4
    /\ sink[2].diagnostic.notes = << "see log", "summary: 1 warning(s)" >>
    /\ sink[4].diagnostic.notes = << "see log", "summary: 1 bug(s)" >>

(***************************************************************************)
(* Two render calls side by side, each in one of the four modes, with       *)
(* builders of any colours and charset: what the colours option reaches.    *)
(* Threads 1 and 2 hold the two calls.                                      *)
(***************************************************************************)
\* the builders for the shared SourceMap with their colours and charset set
ColorBuilders ==
    { ReportBuilder_with_charset(ReportBuilder_with_colors(builder, c), cs) :
        c \in ColorChoice, cs \in CharSet }

\* the sink of a call on builder b: the caller's for write; for print, eprint and
\* as_string the stream or buffer built with the colour choice matched from b
ModeWriters(b) ==
    { CallerWriter }
    \cup { [ dest |-> d, color |-> TermColorChoice(b) ] : d \in { "stdout", "stderr", "buffer" } }

NextColors ==
    \E t \in { 1, 2 } :
        \/ \E b \in ColorBuilders : \E w \in ModeWriters(b) : \E r \in ParReportables :
               ThreadBegin(t, b, w, r)
        \/ ThreadNextReport(t)
        \/ ThreadEmit(t, {})
        \/ ThreadEnd(t)

SpecColors == InitPar /\ [][NextColors]_vars

\* the colour choice the specification gives for a pair of options
ColourFor(colors, charset) ==
    CASE colors = "Always" /\ charset = "Ascii" -> "AlwaysAnsi"
      [] colors = "Always" /\ charset = "Unicode" -> "Always"
      [] colors = "Auto" -> "Auto"
      [] colors = "Never" -> "Never"

Started(t) == threads[t].pc \in { "render", "done" }

IsPrefix(s1, s2) == Len(s1) <= Len(s2) /\ s1 = SubSeq(s2, 1, Len(s1))

FailedWithIo(th) == th.pc = "done" /\ ~th.result[1].ok /\ th.result[1].err.kind = "Io"

\* C22: print, eprint and as_string give their sink the colour choice
\* Always+Ascii -> AlwaysAnsi, Always+Unicode -> Always, Auto -> Auto,
\* Never -> Never, the same in all three; write builds no colour choice, and for two
\* builders that differ only in colors it issues the same writes to a
\* caller-supplied sink (up to the write a sink refuses) and returns the same result.
ColorsReachOnlyTheSink ==
    /\ \A t \in { 1, 2 } :
           Started(t) =>
               threads[t].writer.color =
                   (IF threads[t].writer.dest = "caller" THEN "caller"
                    ELSE ColourFor(threads[t].builder.colors, threads[t].builder.charset))
    /\ (/\ Started(1)
        /\ Started(2)
        /\ threads[1].writer.dest = "caller"
        /\ threads[2].writer.dest = "caller"
        /\ threads[1].reportable = threads[2].reportable
        /\ threads[1].builder = [ threads[2].builder EXCEPT !.colors = threads[1].builder.colors ]) =>
           /\ IsPrefix(threads[1].sink, threads[2].sink) \/ IsPrefix(threads[2].sink, threads[1].sink)
           /\ (/\ threads[1].pc = "done"
               /\ threads[2].pc = "done"
               /\ ~FailedWithIo(threads[1])
               /\ ~FailedWithIo(threads[2])) =>
                  /\ threads[1].sink = threads[2].sink
                  /\ threads[1].result = threads[2].result

\* two finished write calls for the collection, one with colors = Always and one with
\* colors = Never, both with the Unicode charset
ColorsReachOnlyTheSinkWitness ==
    /\ threads[1].pc = "done"
    /\ threads[2].pc = "done"
    /\ threads[1].writer.dest = "caller"
    /\ threads[2].writer.dest = "caller"
    /\ threads[1].builder.colors = "Always"
    /\ threads[2].builder.colors = "Never"
    /\ threads[1].builder.charset = "Unicode"
    /\ threads[2].builder.charset = "Unicode"
    /\ threads[1].reportable = threads[2].reportable
    /\ threads[1].result[1].ok
    /\ threads[2].result[1].ok
    /\ Len(threads[1].sink) = 4

(***************************************************************************)
(* source.rs: Source and get_character_position.  A content is the list of  *)
(* its Unicode scalar values, each given by the number of bytes of its      *)
(* UTF-8 encoding (1 for ASCII, up to 4); Utf8 lays the bytes out, a lead   *)
(* byte followed by the continuation bytes.  Slicing a str at an index      *)
(* that is beyond its length or not a char boundary panics.                 *)
(***************************************************************************)
MaxChars == 3

Source_new(origin, content) == [ origin |-> Some(origin), content |-> content ]

Source_inline(content) == [ origin |-> None, content |-> content ]

Utf8(content) ==
    Flatten([ i \in 1..Len(content) |->
                [ j \in 1..content[i] |-> IF j = 1 THEN "lead" ELSE "continuation" ] ])

\* str::is_char_boundary
IsCharBoundary(bytes, index) ==
    \/ index = 0
    \/ index = Len(bytes)
    \/ index < Len(bytes) /\ bytes[index + 1] /= "continuation"

\* Chars::count: the bytes of the slice that are not continuation bytes
CharsCount(bytes) == Cardinality({ i \in 1..Len(bytes) : bytes[i] /= "continuation" })

\* a variant that returns the length of the slice in bytes
Source_get_character_positionInBytes(self, position) ==
    IF IsCharBoundary(Utf8(self.content), position)
    THEN [ ok |-> TRUE, value |-> Len(SubSeq(Utf8(self.content), 1, position)) ]
    ELSE [ ok |-> FALSE, panic |-> "byte index is not a char boundary" ]

\* Source::get_character_position
Source_get_character_position(self, position) ==
    IF IsCharBoundary(Utf8(self.content), position)
    THEN [ ok |-> TRUE, value |-> CharsCount(SubSeq(Utf8(self.content), 1, position)) ]
    ELSE [ ok |-> FALSE, panic |-> "byte index is not a char boundary" ]

\* the content of the doc test, "function " + U+1F44B + "(): void {}": nine ASCII
\* characters, one character of four bytes, eleven ASCII characters
DocContent == [ i \in 1..21 |-> IF i = 10 THEN 4 ELSE 1 ]

Contents == UNION { [ 1..n -> 1..4 ] : n \in 0..MaxChars } \cup { DocContent }

\* Source::new("main.ara", content)
SourceNew(content) ==
    /\ pc \in { "build", "source", "get_character_position" }
    /\ draft' = Some([ kind |-> "Source", value |-> Source_new("main.ara", content) ])
    /\ pc' = "source"
    /\ result' = None
    /\ last' = None
    /\ UNCHANGED << threads, source_map, reports, builder, writer, reportable, queue, diags, sink >>

\* source.get_character_position(position); `last` keeps the argument of this call
\* and the argument and result of the call before it on the same source
get_character_position(position) ==
    /\ pc \in { "source", "get_character_position" }
    /\ pc' = "get_character_position"
    /\ result' = Some(Source_get_character_position(draft[1].value, position))
    /\ last' = Some([ op |-> "get_character_position", arg |-> position,
                      before |-> IF IsSome(last)
                                 THEN Some([ arg |-> last[1].arg, result |-> result[1] ])
                                 ELSE None ])
    /\ UNCHANGED << draft, threads, source_map, reports, builder, writer, reportable, queue,
                    diags, sink >>

\* the offsets tried: every offset of the content and one beyond its length
NextPos ==
    \/ \E content \in Contents : SourceNew(content)
    \/ /\ IsSome(draft)
       /\ \E position \in 0..(Len(Utf8(draft[1].value.content)) + 1) :
              get_character_position(position)

InitPos == Init /\ source_map = << >>

SpecPos == InitPos /\ [][NextPos]_vars

\* the byte offset at which the k-th scalar value of a content ends (0 for k = 0)
RECURSIVE EndOf(_, _)
EndOf(content, k) == IF k = 0 THEN 0 ELSE EndOf(content, k - 1) + content[k]

====
